---- MODULE Spec2Model ----
(***************************************************************************)
(* Model of jira-version-action (src/index.ts): one run of run(), split at *)
(* its await points.  The calls run() makes on its collaborators (the      *)
(* @actions/core sinks, the HTTP client and the backoff timer) are         *)
(* recorded, in order, in the history variable events.                     *)
(***************************************************************************)
EXTENDS Integers, Sequences, FiniteSets, TLC

\* Longest version list the server returns to the lookup GET.
MaxListLen == 2

\* What a missing property of a parsed JSON object reads as.
Undefined == "undefined"

USER_AGENT == "jira-version-action"

\* Default of postWithRetry's maxRetries parameter, also passed at the call.
maxRetries == 3

-----------------------------------------------------------------------------
(* Inputs of the action, textual at the boundary; "" is a missing input.   *)

InputSpace ==
    [ jiraBaseUrl        : {"https://company.atlassian.net"},
      jiraProjectKey     : {"MYPROJ"},
      jiraUserEmail      : {"you@example.com", "ci@example.com"},
      jiraApiToken       : {"tok-1", ""},
      versionName        : {"v1.2.0", ""},
      versionDescription : {"Release v1.2.0"},
      released           : BOOLEAN,
      checkIfExists      : BOOLEAN ]

\* The required inputs in the order run() reads them.
RequiredInputs(in) ==
    << <<"jira-base-url", in.jiraBaseUrl>>,
       <<"jira-project-key", in.jiraProjectKey>>,
       <<"jira-user-email", in.jiraUserEmail>>,
       <<"jira-api-token", in.jiraApiToken>>,
       <<"version-name", in.versionName>> >>

\* Index of the first required input that is missing, 0 when none is.
FirstMissing(in) ==
    LET req == RequiredInputs(in)
        missing == {i \in 1..Len(req) : req[i][2] = ""}
    IN  IF missing = {} THEN 0
        ELSE CHOOSE i \in missing : \A j \in missing : i <= j

\* Buffer.from(`${email}:${token}`).toString('base64') on the credentials
\* of InputSpace.
Base64(text) ==
    CASE text = "you@example.com:tok-1" -> "eW91QGV4YW1wbGUuY29tOnRvay0x"
      [] text = "ci@example.com:tok-1"  -> "Y2lAZXhhbXBsZS5jb206dG9rLTE="
      [] OTHER -> "?"

BoolText(b) == IF b THEN "true" ELSE "false"

\* JSON.stringify(payload) for payload = {name, description, project, released}.
JSONstringifyPayload(p) ==
    "{\"name\":\"" \o p.name \o "\",\"description\":\"" \o p.description
      \o "\",\"project\":\"" \o p.project \o "\",\"released\":"
      \o BoolText(p.released) \o "}"

JiraVersionPayload(in) ==
    [ name        |-> in.versionName,
      description |-> in.versionDescription,
      project     |-> in.jiraProjectKey,
      released    |-> in.released ]

Headers(in) ==
    [ Authorization |-> "Basic " \o Base64(in.jiraUserEmail \o ":" \o in.jiraApiToken),
      Accept        |-> "application/json",
      ContentType   |-> "application/json" ]

VersionUrl(in) == in.jiraBaseUrl \o "/rest/api/3/version"

VersionsUrl(baseUrl, projectKey) ==
    baseUrl \o "/rest/api/3/project/" \o projectKey \o "/versions"

-----------------------------------------------------------------------------
(* What the server can answer.                                             *)

StatusCodes == {199, 200, 201, 299, 300, 429, 500}

TransportFaults == {"connect ECONNREFUSED"}

\* Records of the version list (interface JiraVersion); a property the
\* server left out reads as Undefined.
JiraVersions ==
    { [id |-> "123", self |-> "https://x/y/123", name |-> "v1.2.0"],
      [id |-> "456", self |-> "https://x/y/456", name |-> "V1.2.0"],
      [id |-> "789", self |-> "https://x/y/789", name |-> "v1.2.0"],
      [id |-> Undefined, self |-> Undefined, name |-> Undefined] }

SeqsUpTo(S, n) == UNION { [1..k -> S] : k \in 0..n }

\* Body of the lookup response: text that is not JSON, JSON that is not an
\* array (an error object), or an array of records.
GetBodies ==
    { [kind |-> "invalid", items |-> <<>>], [kind |-> "object", items |-> <<>>] }
    \cup { [kind |-> "array", items |-> l] : l \in SeqsUpTo(JiraVersions, MaxListLen) }

\* Body texts of a POST response.
CreatedBody == "{\"id\":\"123\",\"self\":\"https://x/y/123\",\"name\":\"v1.2.0\"}"
ErrorBody   == "{\"errorMessages\":[\"boom\"]}"
NullBody    == "null"
HtmlBody    == "<html>Too Many Requests</html>"

PostBodies == {CreatedBody, ErrorBody, NullBody, HtmlBody}

SyntaxError == [type |-> "SyntaxError", message |-> "Unexpected token < in JSON at position 0"]

\* JSON.parse on the texts of PostBodies: the parsed value, or SyntaxError.
JSONparse(text) ==
    CASE text = CreatedBody ->
           [type |-> "object", id |-> "123", self |-> "https://x/y/123", name |-> "v1.2.0"]
      [] text = ErrorBody ->
           [type |-> "object", id |-> Undefined, self |-> Undefined, name |-> Undefined]
      [] text = NullBody -> [type |-> "null"]
      [] OTHER -> SyntaxError

\* JSON.stringify(JSON.parse(text), null, 2) on the texts that parse.
JSONstringifyPretty(text) ==
    CASE text = CreatedBody ->
           "{\n  \"id\": \"123\",\n  \"self\": \"https://x/y/123\",\n  \"name\": \"v1.2.0\"\n}"
      [] text = ErrorBody -> "{\n  \"errorMessages\": [\n    \"boom\"\n  ]\n}"
      [] OTHER -> "null"

Response(status, body) == [fault |-> "", status |-> status, body |-> body]
Fault(message, noBody) == [fault |-> message, status |-> 0, body |-> noBody]

GetResponses ==
    { Fault(m, [kind |-> "none", items |-> <<>>]) : m \in TransportFaults }
    \cup { Response(s, b) : s \in StatusCodes, b \in GetBodies }

PostResponses ==
    { Fault(m, "") : m \in TransportFaults }
    \cup { Response(s, b) : s \in StatusCodes, b \in PostBodies }

-----------------------------------------------------------------------------
(* Events of the history.                                                  *)

SetSecret(text)          == [kind |-> "setSecret", text |-> text]
Log(level, text)         == [kind |-> level, text |-> text]
Get(u, h, resp)          == [kind |-> "GET", url |-> u, headers |-> h, resp |-> resp]
Post(u, body, h, resp)   == [kind |-> "POST", url |-> u, body |-> body, headers |-> h, resp |-> resp]
SetTimeout(ms)           == [kind |-> "setTimeout", ms |-> ms]
TimerFired(ms)           == [kind |-> "timerFired", ms |-> ms]
SetOutput(name, value)   == [kind |-> "setOutput", name |-> name, value |-> value]
SetFailed(message)       == [kind |-> "setFailed", message |-> message]

\* The catch at the top level of run().
Caught(message) == SetFailed("Action failed with error: " \o message)

VARIABLES pc, inputs, events, url, headers, bodyStr, attempt, waitMs, result

vars == <<pc, inputs, events, url, headers, bodyStr, attempt, waitMs, result>>

NoResult == [status |-> -1, body |-> ""]

Init ==
    /\ pc = "start"
    /\ inputs \in InputSpace
    /\ events = <<>>
    /\ url = ""
    /\ headers = [Authorization |-> "", Accept |-> "", ContentType |-> ""]
    /\ bodyStr = ""
    /\ attempt = 0
    /\ waitMs = 0
    /\ result = NoResult

-----------------------------------------------------------------------------
(* run(), lines 40-63: read the inputs, mask the secrets, build the        *)
(* headers.  core.getInput throws on a missing required input.             *)

\* The inputs read outside the try: the error of a missing input leaves
\* run() unreported.
StartMissingInput_outsideTry ==
    /\ pc = "start"
    /\ FirstMissing(inputs) # 0
    /\ pc' = "done"
    /\ UNCHANGED <<inputs, events, url, headers, bodyStr, attempt, waitMs, result>>

StartMissingInput ==
    /\ pc = "start"
    /\ FirstMissing(inputs) # 0
    /\ events' = events \o
         << Caught("Input required and not supplied: "
                     \o RequiredInputs(inputs)[FirstMissing(inputs)][1]) >>
    /\ pc' = "done"
    /\ UNCHANGED <<inputs, url, headers, bodyStr, attempt, waitMs, result>>

\* Start with the lookup entered whatever check-if-exists says.
Start_alwaysLookup ==
    /\ pc = "start"
    /\ FirstMissing(inputs) = 0
    /\ url' = VersionUrl(inputs)
    /\ headers' = Headers(inputs)
    /\ events' = events \o
         << SetSecret(inputs.jiraApiToken),
            SetSecret(inputs.jiraUserEmail),
            Log("debug", "Secrets masked in logs"),
            Log("debug", "Initializing HTTP client for " \o inputs.jiraBaseUrl) >>
    /\ pc' = "lookup"
    /\ UNCHANGED <<inputs, bodyStr, attempt, waitMs, result>>

\* Start with the first debug line ahead of the masking.
Start_logBeforeMask ==
    /\ pc = "start"
    /\ FirstMissing(inputs) = 0
    /\ url' = VersionUrl(inputs)
    /\ headers' = Headers(inputs)
    /\ events' = events \o
         << Log("debug", "Initializing HTTP client for " \o inputs.jiraBaseUrl),
            SetSecret(inputs.jiraApiToken),
            SetSecret(inputs.jiraUserEmail),
            Log("debug", "Secrets masked in logs") >>
    /\ pc' = IF inputs.checkIfExists THEN "lookup" ELSE "create"
    /\ UNCHANGED <<inputs, bodyStr, attempt, waitMs, result>>

Start ==
    /\ pc = "start"
    /\ FirstMissing(inputs) = 0
    /\ url' = VersionUrl(inputs)
    /\ headers' = Headers(inputs)
    /\ events' = events \o
         << SetSecret(inputs.jiraApiToken),
            SetSecret(inputs.jiraUserEmail),
            Log("debug", "Secrets masked in logs"),
            Log("debug", "Initializing HTTP client for " \o inputs.jiraBaseUrl) >>
    /\ pc' = IF inputs.checkIfExists THEN "lookup" ELSE "create"
    /\ UNCHANGED <<inputs, bodyStr, attempt, waitMs, result>>

-----------------------------------------------------------------------------
(* The lookup.                                                             *)

Thrown(message) == [error |-> message, value |-> [kind |-> "none", items |-> <<>>]]
Returned(value) == [error |-> "", value |-> value]

\* getProjectVersions without the status check of lines 26-28: a non-200
\* answer reads as an empty list.
getProjectVersions_softStatus(resp) ==
    IF resp.fault # "" THEN Thrown(resp.fault)
    ELSE IF resp.status # 200 THEN Returned([kind |-> "array", items |-> <<>>])
    ELSE IF resp.body.kind = "invalid" THEN Thrown(SyntaxError.message)
    ELSE Returned(resp.body)

\* getProjectVersions: the parsed body, or the error it throws.
getProjectVersions(resp) ==
    IF resp.fault # "" THEN Thrown(resp.fault)
    ELSE IF resp.status # 200
         THEN Thrown("Failed to fetch versions: HTTP " \o ToString(resp.status))
    ELSE IF resp.body.kind = "invalid" THEN Thrown(SyntaxError.message)
    ELSE Returned(resp.body)

NoVersion == [id |-> Undefined, self |-> Undefined, name |-> Undefined]

\* findVersion comparing v.id, not v.name, with versionName.
findVersion_wrongField(resp, versionName) ==
    LET versions == getProjectVersions(resp)
        items    == versions.value.items
        hits     == {i \in 1..Len(items) : items[i].id = versionName}
    IN  IF versions.error # ""
        THEN [error |-> versions.error, found |-> FALSE, version |-> NoVersion]
        ELSE IF versions.value.kind # "array"
        THEN [error |-> "versions.find is not a function", found |-> FALSE,
              version |-> NoVersion]
        ELSE IF hits = {}
        THEN [error |-> "", found |-> FALSE, version |-> NoVersion]
        ELSE [error |-> "", found |-> TRUE,
              version |-> items[CHOOSE i \in hits : \A j \in hits : i <= j]]

\* findVersion without the name test: the first listed record is taken.
findVersion_firstListed(resp, versionName) ==
    LET versions == getProjectVersions(resp)
        items    == versions.value.items
    IN  IF versions.error # ""
        THEN [error |-> versions.error, found |-> FALSE, version |-> NoVersion]
        ELSE IF versions.value.kind # "array"
        THEN [error |-> "versions.find is not a function", found |-> FALSE,
              version |-> NoVersion]
        ELSE IF items = <<>>
        THEN [error |-> "", found |-> FALSE, version |-> NoVersion]
        ELSE [error |-> "", found |-> TRUE, version |-> items[1]]

\* findVersion keeping the last record of that name, not the first.
findVersion_lastMatch(resp, versionName) ==
    LET versions == getProjectVersions(resp)
        items    == versions.value.items
        hits     == {i \in 1..Len(items) : items[i].name = versionName}
    IN  IF versions.error # ""
        THEN [error |-> versions.error, found |-> FALSE, version |-> NoVersion]
        ELSE IF versions.value.kind # "array"
        THEN [error |-> "versions.find is not a function", found |-> FALSE,
              version |-> NoVersion]
        ELSE IF hits = {}
        THEN [error |-> "", found |-> FALSE, version |-> NoVersion]
        ELSE [error |-> "", found |-> TRUE,
              version |-> items[CHOOSE i \in hits : \A j \in hits : i >= j]]

\* findVersion guarding the scan: a body that is not an array reads as no
\* match.
findVersion_nonArrayAsEmpty(resp, versionName) ==
    LET versions == getProjectVersions(resp)
        items    == versions.value.items
        hits     == {i \in 1..Len(items) : items[i].name = versionName}
    IN  IF versions.error # ""
        THEN [error |-> versions.error, found |-> FALSE, version |-> NoVersion]
        ELSE IF versions.value.kind # "array" \/ hits = {}
        THEN [error |-> "", found |-> FALSE, version |-> NoVersion]
        ELSE [error |-> "", found |-> TRUE,
              version |-> items[CHOOSE i \in hits : \A j \in hits : i <= j]]

\* findVersion: versions.find(v => v.name === versionName) || null, or the
\* error thrown on the way.
findVersion(resp, versionName) ==
    LET versions == getProjectVersions(resp)
        items    == versions.value.items
        hits     == {i \in 1..Len(items) : items[i].name = versionName}
    IN  IF versions.error # ""
        THEN [error |-> versions.error, found |-> FALSE, version |-> NoVersion]
        ELSE IF versions.value.kind # "array"
        THEN [error |-> "versions.find is not a function", found |-> FALSE,
              version |-> NoVersion]
        ELSE IF hits = {}
        THEN [error |-> "", found |-> FALSE, version |-> NoVersion]
        ELSE [error |-> "", found |-> TRUE,
              version |-> items[CHOOSE i \in hits : \A j \in hits : i <= j]]

\* The lookup without the return of line 72: creation follows the outputs.
Lookup_noReturn ==
    /\ pc = "lookup"
    /\ \E resp \in GetResponses :
         LET existingVersion == findVersion(resp, inputs.versionName)
             get == Get(VersionsUrl(inputs.jiraBaseUrl, inputs.jiraProjectKey),
                        headers, resp)
         IN  IF existingVersion.error # ""
             THEN /\ events' = events \o <<get, Caught(existingVersion.error)>>
                  /\ pc' = "done"
             ELSE IF existingVersion.found
             THEN /\ events' = events \o
                       << get,
                          Log("info", "Version \"" \o inputs.versionName
                                \o "\" already exists in project \""
                                \o inputs.jiraProjectKey \o "\""),
                          SetOutput("version-id", existingVersion.version.id),
                          SetOutput("version-url", existingVersion.version.self) >>
                  /\ pc' = "create"
             ELSE /\ events' = events \o <<get>>
                  /\ pc' = "create"
    /\ UNCHANGED <<inputs, url, headers, bodyStr, attempt, waitMs, result>>

\* run(), lines 66-74.
Lookup ==
    /\ pc = "lookup"
    /\ \E resp \in GetResponses :
         LET existingVersion == findVersion(resp, inputs.versionName)
             get == Get(VersionsUrl(inputs.jiraBaseUrl, inputs.jiraProjectKey),
                        headers, resp)
         IN  IF existingVersion.error # ""
             THEN /\ events' = events \o <<get, Caught(existingVersion.error)>>
                  /\ pc' = "done"
             ELSE IF existingVersion.found
             THEN /\ events' = events \o
                       << get,
                          Log("info", "Version \"" \o inputs.versionName
                                \o "\" already exists in project \""
                                \o inputs.jiraProjectKey \o "\""),
                          SetOutput("version-id", existingVersion.version.id),
                          SetOutput("version-url", existingVersion.version.self) >>
                  /\ pc' = "done"
             ELSE /\ events' = events \o <<get>>
                  /\ pc' = "create"
    /\ UNCHANGED <<inputs, url, headers, bodyStr, attempt, waitMs, result>>

-----------------------------------------------------------------------------
(* The creation phase.                                                     *)

\* run(), lines 76-87 and 105: log, build the payload, serialize it, enter
\* postWithRetry.
Create ==
    /\ pc = "create"
    /\ events' = events \o
         << Log("info", "Creating version \"" \o inputs.versionName
                  \o "\" in project \"" \o inputs.jiraProjectKey \o "\"...") >>
    /\ bodyStr' = JSONstringifyPayload(JiraVersionPayload(inputs))
    /\ attempt' = 0
    /\ pc' = "post"
    /\ UNCHANGED <<inputs, url, headers, waitMs, result>>

\* The retry test with the budget one short.
ShouldRetry_budgetShort(status, n) == status = 429 /\ n < maxRetries

\* The retry test taking every status from 429 up as retryable.
ShouldRetry_anyFrom429(status, n) == status >= 429 /\ n <= maxRetries

\* The retry test with the budget one long.
ShouldRetry_budgetLong(status, n) == status = 429 /\ n <= maxRetries + 1

\* postWithRetry, line 94: the response is retried.
ShouldRetry(status, n) == status = 429 /\ n <= maxRetries

\* A linear backoff.
BackoffMs_linear(n) == n * 2000

\* postWithRetry, line 95.
BackoffMs(n) == (2 ^ n) * 1000

\* The request rebuilt on a retry: the attempt number joins the body.
PostRequest_rebuiltOnRetry(u, body, h, n, resp) ==
    Post(u, IF n > 1 THEN body \o ToString(n) ELSE body, h, resp)

\* postWithRetry, line 90: the request of attempt n.
PostRequest(u, body, h, n, resp) == Post(u, body, h, resp)

\* The loop with a transport fault of client.post caught inside it and
\* retried like a 429 while the budget lasts.
PostAttempt_retryOnFault ==
    /\ pc = "post"
    /\ attempt' = attempt + 1
    /\ \E resp \in PostResponses :
         LET post == PostRequest(url, bodyStr, headers, attempt', resp)
         IN  IF resp.fault # "" /\ attempt' > maxRetries
             THEN /\ events' = events \o <<post, Caught(resp.fault)>>
                  /\ pc' = "done"
                  /\ UNCHANGED <<waitMs, result>>
             ELSE IF resp.fault # "" \/ ShouldRetry(resp.status, attempt')
             THEN /\ waitMs' = BackoffMs(attempt')
                  /\ events' = events \o
                       << post,
                          Log("warning", "Rate limit exceeded, retrying in "
                                \o ToString(waitMs') \o "ms (" \o ToString(attempt')
                                \o "/" \o ToString(maxRetries) \o ")"),
                          SetTimeout(waitMs') >>
                  /\ pc' = "wait"
                  /\ UNCHANGED result
             ELSE /\ events' = events \o <<post>>
                  /\ result' = [status |-> resp.status, body |-> resp.body]
                  /\ pc' = "classify"
                  /\ UNCHANGED waitMs
    /\ UNCHANGED <<inputs, url, headers, bodyStr>>

\* postWithRetry, lines 89-101: one pass of the loop up to its await on the
\* timer or its return.
PostAttempt ==
    /\ pc = "post"
    /\ attempt' = attempt + 1
    /\ \E resp \in PostResponses :
         LET post == PostRequest(url, bodyStr, headers, attempt', resp)
         IN  IF resp.fault # ""
             THEN /\ events' = events \o <<post, Caught(resp.fault)>>
                  /\ pc' = "done"
                  /\ UNCHANGED <<waitMs, result>>
             ELSE IF ShouldRetry(resp.status, attempt')
             THEN /\ waitMs' = BackoffMs(attempt')
                  /\ events' = events \o
                       << post,
                          Log("warning", "Rate limit exceeded, retrying in "
                                \o ToString(waitMs') \o "ms (" \o ToString(attempt')
                                \o "/" \o ToString(maxRetries) \o ")"),
                          SetTimeout(waitMs') >>
                  /\ pc' = "wait"
                  /\ UNCHANGED result
             ELSE /\ events' = events \o <<post>>
                  /\ result' = [status |-> resp.status, body |-> resp.body]
                  /\ pc' = "classify"
                  /\ UNCHANGED waitMs
    /\ UNCHANGED <<inputs, url, headers, bodyStr>>

\* postWithRetry, lines 97-98: the timer fires and the loop continues.
TimerFires ==
    /\ pc = "wait"
    /\ events' = events \o <<TimerFired(waitMs)>>
    /\ pc' = "post"
    /\ UNCHANGED <<inputs, url, headers, bodyStr, attempt, waitMs, result>>

\* The status test with 200 left out of the success range.
IsHttpFailure_excludes200(status) == status <= 200 \/ status >= 300

\* run(), line 107.
IsHttpFailure(status) == status < 200 \/ status >= 300

\* The classification with a body that fails to parse reported through the
\* HTTP failure message, whatever the status.
Classify_parseFailureAsHttp ==
    /\ pc = "classify"
    /\ LET data == JSONparse(result.body)
       IN  IF IsHttpFailure(result.status)
           THEN events' = events \o
                  << Log("error", "Failed to create Jira version:"),
                     Log("error", "- Status: HTTP " \o ToString(result.status)) >>
                  \o (IF data.type # "SyntaxError"
                      THEN << Log("error", "- Error details:"),
                              Log("error", JSONstringifyPretty(result.body)) >>
                      ELSE << Log("error", "- Raw response:"),
                              Log("error", result.body) >>)
                  \o << SetFailed("Version creation failed with HTTP "
                                    \o ToString(result.status)) >>
           ELSE IF data.type = "SyntaxError"
           THEN events' = events \o
                  << SetFailed("Version creation failed with HTTP "
                                 \o ToString(result.status)) >>
           ELSE IF data.type = "null"
           THEN events' = events \o
                  << Caught("Cannot read properties of null (reading 'name')") >>
           ELSE events' = events \o
                  << Log("info", "Version \"" \o data.name \o "\" created successfully"),
                     SetOutput("version-id", data.id),
                     SetOutput("version-url", data.self) >>
    /\ pc' = "done"
    /\ UNCHANGED <<inputs, url, headers, bodyStr, attempt, waitMs, result>>

\* The classification without the parse of lines 110-113: the body of an
\* HTTP failure is always logged raw.
Classify_rawOnly ==
    /\ pc = "classify"
    /\ LET data == JSONparse(result.body)
       IN  IF IsHttpFailure(result.status)
           THEN events' = events \o
                  << Log("error", "Failed to create Jira version:"),
                     Log("error", "- Status: HTTP " \o ToString(result.status)),
                     Log("error", "- Raw response:"),
                     Log("error", result.body),
                     SetFailed("Version creation failed with HTTP "
                                 \o ToString(result.status)) >>
           ELSE IF data.type = "SyntaxError"
           THEN events' = events \o
                  << SetFailed("Failed to parse Jira response as JSON.") >>
           ELSE IF data.type = "null"
           THEN events' = events \o
                  << Caught("Cannot read properties of null (reading 'name')") >>
           ELSE events' = events \o
                  << Log("info", "Version \"" \o data.name \o "\" created successfully"),
                     SetOutput("version-id", data.id),
                     SetOutput("version-url", data.self) >>
    /\ pc' = "done"
    /\ UNCHANGED <<inputs, url, headers, bodyStr, attempt, waitMs, result>>

\* run(), lines 107-132: classify the result of postWithRetry.
Classify ==
    /\ pc = "classify"
    /\ LET data == JSONparse(result.body)
       IN  IF IsHttpFailure(result.status)
           THEN events' = events \o
                  << Log("error", "Failed to create Jira version:"),
                     Log("error", "- Status: HTTP " \o ToString(result.status)) >>
                  \o (IF data.type # "SyntaxError"
                      THEN << Log("error", "- Error details:"),
                              Log("error", JSONstringifyPretty(result.body)) >>
                      ELSE << Log("error", "- Raw response:"),
                              Log("error", result.body) >>)
                  \o << SetFailed("Version creation failed with HTTP "
                                    \o ToString(result.status)) >>
           ELSE IF data.type = "SyntaxError"
           THEN events' = events \o
                  << SetFailed("Failed to parse Jira response as JSON.") >>
           ELSE IF data.type = "null"
           THEN events' = events \o
                  << Caught("Cannot read properties of null (reading 'name')") >>
           ELSE events' = events \o
                  << Log("info", "Version \"" \o data.name \o "\" created successfully"),
                     SetOutput("version-id", data.id),
                     SetOutput("version-url", data.self) >>
    /\ pc' = "done"
    /\ UNCHANGED <<inputs, url, headers, bodyStr, attempt, waitMs, result>>

Next ==
    \/ StartMissingInput
    \/ Start
    \/ Lookup
    \/ Create
    \/ PostAttempt
    \/ TimerFires
    \/ Classify

Spec == Init /\ [][Next]_vars

\* The run under its scheduling: a step of run() that can be taken is taken
\* (every HTTP call returns or faults, every backoff timer fires).
FairSpec == Spec /\ WF_vars(Next)

-----------------------------------------------------------------------------
(* Reading the history.                                                    *)

Idx(kind) == {i \in 1..Len(events) : events[i].kind = kind}

GetIdx    == Idx("GET")
PostIdx   == Idx("POST")
OutputIdx == Idx("setOutput")
FailedIdx == Idx("setFailed")

\* The values given to the output called name.
OutputValues(name) == {events[i].value : i \in {j \in OutputIdx : events[j].name = name}}

Ended     == pc = "done"
Failed    == FailedIdx # {}
Succeeded == Ended /\ ~Failed

\* The lookup GET was answered, without a transport fault, by status.
LookupAnswered(i) == i \in GetIdx /\ events[i].resp.fault = ""

\* The lookup GET was answered 200 with a list of records.
LookupListed(i) ==
    /\ LookupAnswered(i)
    /\ events[i].resp.status = 200
    /\ events[i].resp.body.kind = "array"

\* Positions, in the list answered to GET i, of the records called name.
Named(i, name) ==
    {k \in 1..Len(events[i].resp.body.items) : events[i].resp.body.items[k].name = name}

-----------------------------------------------------------------------------
\* C1 (as stated): with check-if-exists=true, a lookup GET answered by a
\* status other than 200 does not fail the run; the run goes on to the
\* creation phase and issues at least one POST.
C1_LookupFailureFallsThrough ==
    \A i \in 1..Len(events) :
        (LookupAnswered(i) /\ events[i].resp.status # 200 /\ Ended)
            => (PostIdx # {} /\ \A f \in FailedIdx : \E p \in PostIdx : p < f)

\* C1 (amended): with check-if-exists=true, a lookup GET answered by a status
\* other than 200 ends the run at that point: no POST is ever issued, no
\* output is set, and the run reports the failure "Action failed with error:
\* Failed to fetch versions: HTTP <status>".
C1_LookupHttpFailureIsFatal ==
    \A i \in 1..Len(events) :
        (LookupAnswered(i) /\ events[i].resp.status # 200)
            => /\ inputs.checkIfExists
               /\ Ended
               /\ PostIdx = {}
               /\ OutputIdx = {}
               /\ i + 1 = Len(events)
               /\ events[i + 1] =
                    SetFailed("Action failed with error: Failed to fetch versions: HTTP "
                                \o ToString(events[i].resp.status))

C1_Witness ==
    \E i \in 1..Len(events) :
        LookupAnswered(i) /\ events[i].resp.status = 500 /\ Ended

\* C2: with check-if-exists=true, a lookup answered 200 with a list holding
\* a record called version-name issues no POST, ends in success, and sets
\* version-id and version-url to that record's id and self.
C2_ExistingVersionReused ==
    \A i \in 1..Len(events) :
        (LookupListed(i) /\ Named(i, inputs.versionName) # {})
            => /\ PostIdx = {}
               /\ Succeeded
               /\ \E k \in Named(i, inputs.versionName) :
                     /\ OutputValues("version-id") = {events[i].resp.body.items[k].id}
                     /\ OutputValues("version-url") = {events[i].resp.body.items[k].self}

C2_Witness ==
    \E i \in 1..Len(events) :
        /\ LookupListed(i)
        /\ Len(events[i].resp.body.items) = 2
        /\ Named(i, inputs.versionName) = {2}
        /\ OutputValues("version-id") = {"789"}
        /\ OutputValues("version-url") = {"https://x/y/789"}

\* C3: with valid inputs and check-if-exists=false the lookup GET is never
\* issued, so the first HTTP request is the creation POST, and every attempt
\* issues exactly one POST.
C3_NoLookupWithoutFlag ==
    (~inputs.checkIfExists)
        => /\ GetIdx = {}
           /\ Cardinality(PostIdx) = attempt
           /\ (pc \in {"wait", "classify"} => PostIdx # {})

C3_Witness ==
    /\ ~inputs.checkIfExists
    /\ pc = "classify"
    /\ attempt = 2
    /\ Cardinality(PostIdx) = 2

\* C4: with check-if-exists=true, a lookup answered 200 with a list holding
\* no record called version-name leads to the creation path: the run does not
\* end before a POST has followed the GET, and every output is set after a
\* POST, from the body of the last POST response.
C4_NoMatchCreates ==
    \A i \in 1..Len(events) :
        (LookupListed(i) /\ Named(i, inputs.versionName) = {})
            => /\ inputs.checkIfExists
               /\ pc \in {"wait", "classify", "done"} => \E p \in PostIdx : p > i
               /\ \A o \in OutputIdx :
                     /\ \E p \in PostIdx : i < p /\ p < o
                     /\ result.status # -1
                     /\ events[o].value \in
                          {JSONparse(result.body).id, JSONparse(result.body).self}

C4_Witness ==
    \E i \in 1..Len(events) :
        /\ LookupListed(i)
        /\ Len(events[i].resp.body.items) = 2
        /\ Named(i, inputs.versionName) = {}
        /\ Succeeded
        /\ OutputValues("version-id") = {"123"}

-----------------------------------------------------------------------------
(* Reading the POSTs of the history.                                       *)

\* The POST at p was answered, without a transport fault, by status.
Answered(p, status) == events[p].resp.fault = "" /\ events[p].resp.status = status

\* The POST at p is the Rank(p)-th POST of the run.
Rank(p) == Cardinality({q \in PostIdx : q <= p})

LastPost == CHOOSE p \in PostIdx : \A q \in PostIdx : q <= p

\* postWithRetry has returned.
LoopReturned == pc \in {"classify", "done"} /\ result.status # -1

\* The POSTs answered 429 before any POST was answered otherwise.
LeadingRateLimited == {p \in PostIdx : \A q \in PostIdx : q <= p => Answered(q, 429)}

AllRateLimited == PostIdx # {} /\ \A p \in PostIdx : Answered(p, 429)

Least(a, b) == IF a <= b THEN a ELSE b

\* C5: the retry budget is 3 retries after the first attempt.  No run issues
\* more than 4 POSTs; when every POST is answered 429 the run issues exactly
\* 4 POSTs, stops, and ends in the ordinary HTTP failure report for status
\* 429, with no output set.
C5_RetryBudget ==
    /\ Cardinality(PostIdx) <= 4
    /\ (AllRateLimited /\ pc \in {"classify", "done"})
          => Cardinality(PostIdx) = 4 /\ result.status = 429
    /\ (AllRateLimited /\ Ended)
          => /\ OutputIdx = {}
             /\ FailedIdx = {Len(events)}
             /\ events[Len(events)] = SetFailed("Version creation failed with HTTP 429")

C5_Witness ==
    /\ AllRateLimited
    /\ Ended
    /\ Cardinality(PostIdx) = 4
    /\ Failed

\* C6: a POST answered by a status other than 429 is the last POST of the
\* run.  With k leading 429 answers the loop returns after min(k+1, 4) POSTs,
\* and what it returns is the status and body of the last POST.
C6_NonRateLimitEndsLoop ==
    /\ \A p \in PostIdx :
          (events[p].resp.fault = "" /\ events[p].resp.status # 429)
              => \A q \in PostIdx : q <= p
    /\ LoopReturned
          => /\ Cardinality(PostIdx) = Least(Cardinality(LeadingRateLimited) + 1, 4)
             /\ result.status = events[LastPost].resp.status
             /\ result.body = events[LastPost].resp.body
    /\ (Ended /\ Cardinality(PostIdx) = 1 /\ Answered(LastPost, 500))
          => events[Len(events)] = SetFailed("Version creation failed with HTTP 500")

\* The sequence [429, 201]: two POSTs, success from the second body.
C6_Witness ==
    /\ Cardinality(PostIdx) = 2
    /\ \E p \in PostIdx : Answered(p, 429) /\ events[p].resp.body = HtmlBody
    /\ Answered(LastPost, 201)
    /\ events[LastPost].resp.body = CreatedBody
    /\ Succeeded
    /\ OutputValues("version-id") = {"123"}

WaitAfter == <<2000, 4000, 8000>>

\* C7: a wait is started only right after a POST answered 429, the wait
\* after the n-th POST lasts 2^n * 1000 ms (2000, 4000, 8000), every POST but
\* the first comes right after the timer of the wait before it has fired,
\* and no wait follows the last POST: a run whose loop is over has one wait
\* fewer than POSTs.
C7_BackoffSchedule ==
    /\ \A t \in Idx("setTimeout") :
          /\ t >= 3
          /\ events[t - 2].kind = "POST"
          /\ Answered(t - 2, 429)
          /\ Rank(t - 2) \in 1..3
          /\ events[t].ms = WaitAfter[Rank(t - 2)]
          /\ t < Len(events) => events[t + 1] = TimerFired(events[t].ms)
          /\ t = Len(events) => pc = "wait"
    /\ \A f \in Idx("timerFired") :
          /\ events[f - 1].kind = "setTimeout"
          /\ f < Len(events) => events[f + 1].kind = "POST"
    /\ \A p \in PostIdx :
          Rank(p) > 1 => /\ events[p - 1].kind = "timerFired"
                         /\ events[p - 1].ms = WaitAfter[Rank(p) - 1]
    /\ (pc \in {"classify", "done"} /\ PostIdx # {})
          => /\ Cardinality(Idx("setTimeout")) = Cardinality(PostIdx) - 1
             /\ Cardinality(Idx("timerFired")) = Cardinality(PostIdx) - 1
             /\ \A t \in Idx("setTimeout") : t < LastPost

C7_Witness ==
    /\ Ended
    /\ Cardinality(PostIdx) = 4
    /\ Cardinality(Idx("timerFired")) = 3
    /\ \E t \in Idx("timerFired") : events[t].ms = 8000

\* C8: every POST of a run goes to the same URL with the same body and the
\* same headers; the body is the payload {name, description, project,
\* released} of the inputs.
C8_SameRequestEveryAttempt ==
    \A p \in PostIdx :
        /\ \A q \in PostIdx :
              /\ events[p].url = events[q].url
              /\ events[p].body = events[q].body
              /\ events[p].headers = events[q].headers
        /\ events[p].url = "https://company.atlassian.net/rest/api/3/version"
        /\ events[p].body =
             IF inputs.released
             THEN "{\"name\":\"v1.2.0\",\"description\":\"Release v1.2.0\",\"project\":\"MYPROJ\",\"released\":true}"
             ELSE "{\"name\":\"v1.2.0\",\"description\":\"Release v1.2.0\",\"project\":\"MYPROJ\",\"released\":false}"

C8_Witness ==
    /\ Cardinality(PostIdx) = 3
    /\ inputs.released
    /\ pc = "classify"

C10_OutputsLastOnSuccess ==
    /\ Failed => OutputIdx = {}
    /\ \A name \in {"version-id", "version-url"} :
          Cardinality({o \in OutputIdx : events[o].name = name}) <= 1
    /\ OutputIdx # {} => Ended
    /\ \A o \in OutputIdx : \A j \in (o + 1)..Len(events) :
          events[j].kind = "setOutput"

C10_Witness ==
    /\ Succeeded
    /\ PostIdx # {}
    /\ Cardinality(OutputIdx) = 2

-----------------------------------------------------------------------------
\* C11: a run that ends in success has set its outputs from exactly one
\* record that carries an id and a self URL: a record the lookup listed
\* under the requested name, with no POST issued, or the body of the one POST
\* answered 2xx.  No run ends in success on a 2xx body without id and self.
C11_OneRecordPerSuccess ==
    Succeeded
        => \E id \in {"123", "456", "789"}, self \in {"https://x/y/123", "https://x/y/456", "https://x/y/789"} :
              /\ OutputValues("version-id") = {id}
              /\ OutputValues("version-url") = {self}
              /\ \/ /\ PostIdx = {}
                    /\ \E i \in GetIdx : \E k \in Named(i, inputs.versionName) :
                          /\ events[i].resp.body.items[k].id = id
                          /\ events[i].resp.body.items[k].self = self
                 \/ /\ Cardinality({p \in PostIdx : /\ events[p].resp.fault = ""
                                                    /\ events[p].resp.status >= 200
                                                    /\ events[p].resp.status < 300}) = 1
                    /\ JSONparse(events[LastPost].resp.body).id = id
                    /\ JSONparse(events[LastPost].resp.body).self = self

\* C12: a transport fault of the lookup GET or of any POST, a retry included,
\* ends the run at once: the failure report with the fault message follows
\* the faulted request and is the last event, nothing is retried, and no
\* output is set.
C12_TransportFaultIsFatal ==
    \A i \in GetIdx \cup PostIdx :
        events[i].resp.fault # ""
            => /\ Ended
               /\ Len(events) = i + 1
               /\ events[i + 1] =
                    SetFailed("Action failed with error: " \o events[i].resp.fault)
               /\ events[i].resp.fault \in TransportFaults
               /\ OutputIdx = {}

\* A fault on the second retry.
C12_Witness ==
    \E p \in PostIdx :
        /\ Rank(p) = 3
        /\ events[p].resp.fault = "connect ECONNREFUSED"
        /\ Ended

HttpFailureMessages ==
    {"Version creation failed with HTTP " \o ToString(s) : s \in StatusCodes}

\* C13: a final POST status in [200,300) with a body that is not JSON ends
\* the run in failure with no output, under the message "Failed to parse Jira
\* response as JSON.", which is none of the messages of an HTTP failure; a
\* final status outside [200,300) is reported under "Version creation failed
\* with HTTP <status>".
C13_ParseFailureDistinct ==
    (Ended /\ result.status # -1)
        => /\ (200 <= result.status /\ result.status < 300 /\ result.body = HtmlBody)
                => /\ OutputIdx = {}
                   /\ FailedIdx = {Len(events)}
                   /\ events[Len(events)].message = "Failed to parse Jira response as JSON."
                   /\ events[Len(events)].message \notin HttpFailureMessages
           /\ (result.status < 200 \/ result.status >= 300)
                => /\ FailedIdx = {Len(events)}
                   /\ events[Len(events)].message =
                        "Version creation failed with HTTP " \o ToString(result.status)

C13_Witness ==
    /\ Ended
    /\ result.status = 201
    /\ result.body = HtmlBody
    /\ Failed

\* The output called name was set exactly once.
SetOnce(name) == Cardinality({o \in OutputIdx : events[o].name = name}) = 1

\* C14: a run that has ended has made exactly one terminal report: one
\* failure report and no output, or both outputs and no failure report.  A
\* run that has not ended has reported nothing, and whatever was thrown on
\* the way (missing input, transport fault, lookup failure, parse failure)
\* has become that one failure report.
C14_OneTerminalReport ==
    /\ Cardinality(FailedIdx) <= 1
    /\ ~(Failed /\ OutputIdx # {})
    /\ Ended => \/ /\ FailedIdx = {Len(events)}
                   /\ OutputIdx = {}
                \/ /\ FailedIdx = {}
                   /\ SetOnce("version-id")
                   /\ SetOnce("version-url")
    /\ ~Ended => FailedIdx = {} /\ OutputIdx = {}
    /\ (Ended /\ FirstMissing(inputs) # 0) => Failed

C14_Witness ==
    /\ Ended
    /\ FirstMissing(inputs) = 5
    /\ events = << SetFailed("Action failed with error: Input required and not supplied: version-name") >>

\* The masking sink was given text before event i.
MaskedBefore(text, i) == \E m \in Idx("setSecret") : m < i /\ events[m].text = text

\* C15: every diagnostic message (debug, info, warning, error) and every
\* HTTP request comes after core.setSecret has been called on the API token
\* and on the user email.
C15_MaskBeforeLogging ==
    \A i \in 1..Len(events) :
        events[i].kind \in {"debug", "info", "warning", "error", "GET", "POST"}
            => /\ MaskedBefore(inputs.jiraApiToken, i)
               /\ MaskedBefore(inputs.jiraUserEmail, i)

C15_Witness ==
    /\ Ended
    /\ GetIdx # {}
    /\ PostIdx # {}
    /\ Idx("debug") # {}
    /\ Idx("warning") # {}
    /\ Idx("error") # {}

\* postWithRetry returned a status outside [200,300).
HttpFailure == result.status # -1 /\ (result.status < 200 \/ result.status >= 300)

\* C17 (as stated): every failure report is preceded by an error-level
\* diagnostic summary.
C17_SummaryBeforeEveryFailure ==
    \A f \in FailedIdx : \E e \in Idx("error") : e < f

\* C17 (amended): the failure report of an HTTP failure (final POST status
\* outside [200,300)) comes right after an error-level summary: a heading,
\* the final status code, and the body, pretty-printed under "- Error
\* details:" when it parses as JSON, else verbatim under "- Raw response:".
\* Every other failure is reported without any error-level message.
C17_SummaryBeforeHttpFailure ==
    \A f \in FailedIdx :
        IF HttpFailure
        THEN /\ f >= 5
             /\ events[f - 4] = Log("error", "Failed to create Jira version:")
             /\ events[f - 3] = Log("error", "- Status: HTTP " \o ToString(result.status))
             /\ result.body = HtmlBody
                  => /\ events[f - 2] = Log("error", "- Raw response:")
                     /\ events[f - 1] = Log("error", "<html>Too Many Requests</html>")
             /\ result.body # HtmlBody
                  => /\ events[f - 2] = Log("error", "- Error details:")
                     /\ events[f - 1].kind = "error"
             /\ result.body = ErrorBody
                  => events[f - 1].text = "{\n  \"errorMessages\": [\n    \"boom\"\n  ]\n}"
             /\ result.body = NullBody => events[f - 1].text = "null"
        ELSE Idx("error") = {}

C17_Witness ==
    /\ Ended
    /\ result.status = 500
    /\ result.body = ErrorBody
    /\ Cardinality(Idx("error")) = 4

\* C18: the lookup takes the first record of the list whose name equals
\* version-name exactly: when records are listed under that name the outputs
\* are the id and self of the earliest of them, and a list whose names differ
\* from version-name, if only by case, gives no output from the lookup.
C18_FirstExactMatch ==
    \A i \in 1..Len(events) :
        LookupListed(i)
            => LET items == events[i].resp.body.items
                   same  == {k \in 1..Len(items) : items[k].name = inputs.versionName}
               IN  /\ same # {}
                     => \E k \in same :
                           /\ \A j \in same : k <= j
                           /\ events[Len(events) - 1] = SetOutput("version-id", items[k].id)
                           /\ events[Len(events)] = SetOutput("version-url", items[k].self)
                   /\ same = {}
                     => \A o \in OutputIdx : \E p \in PostIdx : p < o
                   /\ (inputs.versionName = "v1.2.0"
                         /\ \A k \in 1..Len(items) : items[k].name = "V1.2.0")
                     => (pc # "done" \/ PostIdx # {})

\* Two records under the requested name, after one that differs by case.
C18_Witness ==
    \E i \in 1..Len(events) :
        /\ LookupListed(i)
        /\ Len(events[i].resp.body.items) = 2
        /\ events[i].resp.body.items[1].id = "789"
        /\ events[i].resp.body.items[2].id = "123"
        /\ OutputValues("version-id") = {"789"}

\* C19: with check-if-exists=true, a lookup answered 200 with a body that is
\* not JSON, or that is JSON but not a list, ends the run in failure at once:
\* no POST is issued and no output is set.
C19_MalformedLookupIsFatal ==
    \A i \in 1..Len(events) :
        (LookupAnswered(i) /\ events[i].resp.status = 200
           /\ events[i].resp.body.kind \in {"invalid", "object"})
            => /\ inputs.checkIfExists
               /\ Ended
               /\ PostIdx = {}
               /\ OutputIdx = {}
               /\ FailedIdx = {i + 1}
               /\ Len(events) = i + 1

C19_Witness ==
    \E i \in 1..Len(events) :
        /\ LookupAnswered(i)
        /\ events[i].resp.status = 200
        /\ events[i].resp.body.kind = "object"
        /\ Failed

RECURSIVE SumMs(_)
SumMs(seq) == IF seq = <<>> THEN 0 ELSE Head(seq).ms + SumMs(Tail(seq))

IsTimerFired(e) == e.kind = "timerFired"

\* Milliseconds of backoff the run has waited.
TotalWaitMs == SumMs(SelectSeq(events, IsTimerFired))

\* C20: every run terminates: it reaches its end, in success or in failure,
\* having issued at most one GET and at most four POSTs, the GET before every
\* POST, and having waited at most 14000 ms of backoff.
C20_Terminates ==
    <>( /\ Ended
        /\ Succeeded \/ Failed
        /\ Cardinality(GetIdx) <= 1
        /\ Cardinality(PostIdx) <= 4
        /\ \A g \in GetIdx : \A p \in PostIdx : g < p
        /\ TotalWaitMs <= 14000 )

\* The longest run: a lookup without a match and four POSTs answered 429.
C20_Witness ==
    /\ Ended
    /\ Cardinality(GetIdx) = 1
    /\ Cardinality(PostIdx) = 4
    /\ TotalWaitMs = 14000

====
